---- MODULE Spec2Model ----
(***************************************************************************)
(* Model of ytt.py: the transcript formatter, the filename sanitizer, the  *)
(* video-identifier extraction and the get_transcript pipeline.            *)
(*                                                                         *)
(* A Python str is a sequence of one-character strings; None is the empty  *)
(* tuple <<>> and a present value v is the one-element tuple <<v>>.         *)
(***************************************************************************)
EXTENDS Naturals, Sequences, FiniteSets

VARIABLES
    pc,                 \* position in get_transcript / in the function under study
    video_url,          \* args.url, get_transcript's video_url argument
    output,             \* args.output: <<>> (None) or <<path>>; the path <<>> is ''
    output_file,        \* get_transcript's output_file, reassigned for the '' sentinel
    system,             \* platform.system()
    video_id,
    fetched_transcript, \* sequence of snippet texts
    all_text,           \* format_transcript's all_text when it returned
    cleaned,            \* format_transcript's cleaned_paragraphs when it returned
    clean_text,
    word_count,
    paragraph_count,
    command_run,        \* <<>> or <<[input |-> text, ok |-> BOOLEAN]>>: the subprocess run
    copied,             \* <<>> or <<r>>: what copy_to_clipboard returned
    title_lookups,      \* number of calls of fetch_video_title
    video_title,
    sanitized_title,
    written,            \* <<>> or <<[name |-> path, content |-> text]>>: the file written
    error,              \* <<>> or <<e>>: the exception that reached the handler
    exit_status,        \* <<>> while running, then <<0>> or <<1>>
    stages,             \* the stages performed so far, in order
    title,              \* sanitize_filename's title argument
    max_length,         \* sanitize_filename's max_length argument
    second_run          \* <<>> or <<r>>: the formatter's result on its own output

vars == <<pc, video_url, output, output_file, system, video_id,
          fetched_transcript, all_text, cleaned, clean_text, word_count,
          paragraph_count, command_run, copied,
          title_lookups, video_title, sanitized_title, written, error,
          exit_status, stages, title, max_length, second_run>>

----------------------------------------------------------------------------
(* Bounds of the input domains.                                            *)

MaxFrags == 3

MaxTitleLen == 3

MaxUrlLen == 5

----------------------------------------------------------------------------
(* Python str primitives.                                                  *)

NL == "\n"

TAB == "\t"

\* The characters str.strip(), str.split() and the regex class \s treat as
\* whitespace (those that occur in the model's alphabets).
Whitespace == {" ", TAB, NL}

Min(S) == CHOOSE x \in S : \A y \in S : x <= y

Max(S) == CHOOSE x \in S : \A y \in S : x >= y

\* All sequences over chars of length at most n.
TextsUpTo(chars, n) == UNION {[1..k -> chars] : k \in 0..n}

\* All sequences over pool of length at most n.
SeqsUpTo(pool, n) == UNION {[1..k -> pool] : k \in 0..n}

\* s.strip(chars)
strip_chars(s, chars) ==
    LET keep == {i \in 1..Len(s) : s[i] \notin chars}
    IN  IF keep = {} THEN <<>> ELSE SubSeq(s, Min(keep), Max(keep))

\* s.rstrip(chars)
rstrip_chars(s, chars) ==
    LET keep == {i \in 1..Len(s) : s[i] \notin chars}
    IN  IF keep = {} THEN <<>> ELSE SubSeq(s, 1, Max(keep))

\* s.strip()
strip(s) == strip_chars(s, Whitespace)

\* sep.join(parts)
RECURSIVE join(_, _)
join(sep, parts) ==
    IF parts = <<>> THEN <<>>
    ELSE IF Len(parts) = 1 THEN parts[1]
    ELSE parts[1] \o sep \o join(sep, Tail(parts))

OccursAt(s, sep, i) ==
    /\ i + Len(sep) - 1 <= Len(s)
    /\ SubSeq(s, i, i + Len(sep) - 1) = sep

\* s.split(sep): cut at the leftmost non-overlapping occurrences of sep.
RECURSIVE split(_, _)
split(s, sep) ==
    LET occ == {i \in 1..Len(s) : OccursAt(s, sep, i)}
    IN  IF occ = {} THEN <<s>>
        ELSE <<SubSeq(s, 1, Min(occ) - 1)>>
             \o split(SubSeq(s, Min(occ) + Len(sep), Len(s)), sep)

\* s.split(): the maximal runs of non-whitespace characters.
RECURSIVE split_ws(_)
split_ws(s) ==
    LET t == strip(s)
        ws == {i \in 1..Len(t) : t[i] \in Whitespace}
    IN  IF t = <<>> THEN <<>>
        ELSE IF ws = {} THEN <<t>>
        ELSE <<SubSeq(t, 1, Min(ws) - 1)>> \o split_ws(SubSeq(t, Min(ws), Len(t)))

\* parts[-1]
last(parts) == parts[Len(parts)]

----------------------------------------------------------------------------
(* format_transcript                                                       *)

\* The first pass: the loop over the snippets from index i on, with the
\* retained texts so far and last_text (<<>> is None).
RECURSIVE dedup_loop(_, _, _, _)
dedup_loop(snippets, i, kept, last_text) ==
    IF i > Len(snippets) THEN kept
    ELSE LET text == strip(snippets[i])
         IN  IF last_text = <<text>>
             THEN dedup_loop(snippets, i + 1, kept, last_text)
             ELSE dedup_loop(snippets, i + 1, Append(kept, text), <<text>>)

\* Mutant: last_text starts as '' instead of None.
all_text_of_empty_last(snippets) == dedup_loop(snippets, 1, <<>>, << <<>> >>)

all_text_of(snippets) == dedup_loop(snippets, 1, <<>>, <<>>)

full_text_of(snippets) == join(<<" ">>, all_text_of(snippets))

\* Mutant: the empty paragraphs are not removed.
clean_loop_keep_empty(paragraphs) ==
    [i \in 1..Len(paragraphs) |-> strip(paragraphs[i])]

\* Mutant: the paragraphs are kept as they were split, not stripped.
RECURSIVE clean_loop_no_strip(_)
clean_loop_no_strip(paragraphs) ==
    IF paragraphs = <<>> THEN <<>>
    ELSE IF strip(Head(paragraphs)) # <<>>
         THEN <<Head(paragraphs)>> \o clean_loop_no_strip(Tail(paragraphs))
         ELSE clean_loop_no_strip(Tail(paragraphs))

\* The second pass: strip each paragraph, keep the non-empty ones.
RECURSIVE clean_loop(_)
clean_loop(paragraphs) ==
    IF paragraphs = <<>> THEN <<>>
    ELSE LET para == strip(Head(paragraphs))
         IN  IF para # <<>> THEN <<para>> \o clean_loop(Tail(paragraphs))
             ELSE clean_loop(Tail(paragraphs))

cleaned_paragraphs(snippets) ==
    clean_loop(split(full_text_of(snippets), <<">", ">">>))

format_transcript(snippets) == join(<<NL, NL>>, cleaned_paragraphs(snippets))

----------------------------------------------------------------------------
(* sanitize_filename                                                       *)

invalid_chars == {"<", ">", ":", "\"", "/", "\\", "|", "?", "*"}

\* for char in invalid_chars: title = title.replace(char, '-')
replace_invalid(t) == [i \in 1..Len(t) |-> IF t[i] \in invalid_chars THEN "-" ELSE t[i]]

\* re.sub(r'[\s\-]+', '-', title)
collapse_runs(t) ==
    LET cls == Whitespace \cup {"-"}
    IN  join(<<>>, [i \in 1..Len(t) |->
            IF t[i] \notin cls THEN <<t[i]>>
            ELSE IF i > 1 /\ t[i - 1] \in cls THEN <<>>
            ELSE <<"-">>])

\* Mutant: no second trim after the cut.
truncate_no_rstrip(t, n) == IF Len(t) > n THEN SubSeq(t, 1, n) ELSE t

truncate(t, n) ==
    IF Len(t) > n THEN rstrip_chars(SubSeq(t, 1, n), {"-", " "}) ELSE t

sanitize_filename(t, n) ==
    IF t = <<>> THEN <<>>
    ELSE truncate(strip_chars(collapse_runs(replace_invalid(t)), {"-", " "}), n)

default_max_length == 100

----------------------------------------------------------------------------
(* The video identifier: video_url.split('v=')[-1].split('&')[0]           *)

\* Mutant: the segment after the first v=, not the last.
extract_after_first(url) ==
    LET parts == split(url, <<"v", "=">>)
    IN  split(IF Len(parts) > 1 THEN parts[2] ELSE parts[1], <<"&">>)[1]

extract_video_id(url) == split(last(split(url, <<"v", "=">>)), <<"&">>)[1]

----------------------------------------------------------------------------
(* Input domains.                                                          *)

\* URLs given on the command line: with and without v=, with and without &.
Urls == { <<"v", "=", "a", "&", "b">>, <<"a", "&", "b">>, <<"a">> }

\* args.output: absent (None), -o without a value (''), -o FILE.
Outputs == { <<>>, << <<>> >>, << <<"o">> >> }

Systems == {"Darwin", "Linux", "Windows", "FreeBSD"}

KnownSystems == {"Darwin", "Linux", "Windows"}

\* Snippet texts the transcript service may return.
Snippets == {
    <<>>, <<" ">>, <<NL>>, <<"a">>, <<"b">>, <<"a", " ">>, <<" ", "a">>,
    <<"a", " ", "b">>, <<">">>, <<">", ">">>, <<">", ">", ">">>,
    <<">", ">", " ", "a">>, <<"a", ">", ">", "b">>,
    <<"a", NL, NL, NL, NL, "b">> }

\* Transcripts the pipeline is run on.
Transcripts == {
    <<>>,
    << <<" ">> >>,
    << <<"a">>, <<"a">>, <<"b">> >>,
    << <<"a">>, <<">", ">", " ", "b">> >>,
    << <<"a", NL, NL, NL, NL, "b">> >> }

FetchErrors == {"Subtitles are disabled", "FetchError"}

\* What the oEmbed request gives: a failure (transport, HTTP status, bad
\* JSON), or a JSON object whose title field is absent (<<>>) or a string.
TitleResponses ==
    { [ok |-> FALSE, title |-> <<>>], [ok |-> TRUE, title |-> <<>>] }
    \cup { [ok |-> TRUE, title |-> <<t>>] :
             t \in { <<>>, <<"?">>, <<"a", ":", " ", "b">> } }

TitleChars == {"a", " ", TAB, "-"} \cup invalid_chars

UrlChars == {"v", "=", "&", "a"}

----------------------------------------------------------------------------
(* fetch_video_title: '' when the request fails or the field is absent.    *)

fetch_video_title(resp) ==
    IF ~resp.ok THEN <<>>
    ELSE IF resp.title = <<>> THEN <<>>
    ELSE resp.title[1]

\* f"{sanitized_title}-[{video_id}]-transcript.txt"
titled_name(san, id) ==
    san \o <<"-", "[">> \o id
        \o <<"]", "-", "t", "r", "a", "n", "s", "c", "r", "i", "p", "t", ".", "t", "x", "t">>

\* f"{video_id}_transcript.txt"
fallback_name(id) ==
    id \o <<"_", "t", "r", "a", "n", "s", "c", "r", "i", "p", "t", ".", "t", "x", "t">>

\* Mutant: the title test is inverted.
default_name_inverted(san, id) ==
    IF san = <<>> THEN titled_name(san, id) ELSE fallback_name(id)

default_name(san, id) ==
    IF san # <<>> THEN titled_name(san, id) ELSE fallback_name(id)

----------------------------------------------------------------------------
(* get_transcript, one action per stage.                                   *)

Locals ==
    /\ video_id = <<>>
    /\ all_text = <<>>
    /\ cleaned = <<>>
    /\ clean_text = <<>>
    /\ word_count = 0
    /\ paragraph_count = 0
    /\ command_run = <<>>
    /\ copied = <<>>
    /\ title_lookups = 0
    /\ video_title = <<>>
    /\ sanitized_title = <<>>
    /\ written = <<>>
    /\ error = <<>>
    /\ exit_status = <<>>
    /\ stages = <<>>
    /\ second_run = <<>>

Blank == fetched_transcript = <<>> /\ Locals

Init ==
    /\ pc = "extract"
    /\ video_url \in Urls
    /\ output \in Outputs
    /\ output_file = output
    /\ system \in Systems
    /\ title = <<>>
    /\ max_length = default_max_length
    /\ Blank

\* video_id = video_url.split('v=')[-1].split('&')[0]
Extract ==
    /\ pc = "extract"
    /\ video_id' = extract_video_id(video_url)
    /\ stages' = Append(stages, "extract")
    /\ pc' = "fetch"
    /\ UNCHANGED <<video_url, output, output_file, system, fetched_transcript,
                   all_text, cleaned, clean_text, word_count, paragraph_count,
                   command_run, copied, title_lookups, video_title,
                   sanitized_title, written, error, exit_status, title,
                   max_length, second_run>>

\* ytt_api.fetch(video_id, languages=['en']): returns the snippets or raises.
Fetch ==
    /\ pc = "fetch"
    /\ stages' = Append(stages, "fetch")
    /\ \/ \E ft \in Transcripts :
            /\ fetched_transcript' = ft
            /\ pc' = "format"
            /\ UNCHANGED error
       \/ \E e \in FetchErrors :
            /\ error' = <<e>>
            /\ pc' = "except"
            /\ UNCHANGED fetched_transcript
    /\ UNCHANGED <<video_url, output, output_file, system, video_id, all_text,
                   cleaned, clean_text, word_count, paragraph_count,
                   command_run, copied, title_lookups, video_title,
                   sanitized_title, written, exit_status, title, max_length,
                   second_run>>

\* clean_text = format_transcript(fetched_transcript)
Format ==
    /\ pc = "format"
    /\ all_text' = all_text_of(fetched_transcript)
    /\ cleaned' = cleaned_paragraphs(fetched_transcript)
    /\ clean_text' = format_transcript(fetched_transcript)
    /\ stages' = Append(stages, "format")
    /\ pc' = "stats"
    /\ UNCHANGED <<video_url, output, output_file, system, video_id,
                   fetched_transcript, word_count, paragraph_count,
                   command_run, copied, title_lookups, video_title,
                   sanitized_title, written, error, exit_status, title,
                   max_length, second_run>>

\* word_count = len(clean_text.split()); paragraph_count = len(clean_text.split('\n\n'))
Stats ==
    /\ pc = "stats"
    /\ word_count' = Len(split_ws(clean_text))
    /\ paragraph_count' = Len(split(clean_text, <<NL, NL>>))
    /\ stages' = Append(stages, "stats")
    /\ pc' = "clipboard"
    /\ UNCHANGED <<video_url, output, output_file, system, video_id,
                   fetched_transcript, all_text, cleaned, clean_text,
                   command_run, copied, title_lookups, video_title,
                   sanitized_title, written, error, exit_status, title,
                   max_length, second_run>>

\* Mutant: copy_to_clipboard without its try/except; a failed command reaches
\* get_transcript's handler.
CopyToClipboard_raises ==
    /\ pc = "clipboard"
    /\ \/ /\ system \in KnownSystems
          /\ \/ /\ command_run' = <<[input |-> clean_text, ok |-> TRUE]>>
                /\ copied' = <<TRUE>>
                /\ pc' = "save"
                /\ UNCHANGED error
             \/ /\ command_run' = <<[input |-> clean_text, ok |-> FALSE]>>
                /\ error' = <<"ClipboardError">>
                /\ pc' = "except"
                /\ UNCHANGED copied
       \/ /\ system \notin KnownSystems
          /\ copied' = <<TRUE>>
          /\ pc' = "save"
          /\ UNCHANGED <<command_run, error>>
    /\ stages' = Append(stages, "clipboard")
    /\ UNCHANGED <<video_url, output, output_file, system, video_id,
                   fetched_transcript, all_text, cleaned, clean_text,
                   word_count, paragraph_count, title_lookups, video_title,
                   sanitized_title, written, exit_status, title, max_length,
                   second_run>>

\* copy_to_clipboard(clean_text): on the three known platforms a command is
\* run and may fail (CalledProcessError, FileNotFoundError); the exception is
\* caught and False returned. On any other platform no branch is taken.
CopyToClipboard ==
    /\ pc = "clipboard"
    /\ \/ /\ system \in KnownSystems
          /\ \E ok \in BOOLEAN :
                /\ command_run' = <<[input |-> clean_text, ok |-> ok]>>
                /\ copied' = <<ok>>
       \/ /\ system \notin KnownSystems
          /\ copied' = <<TRUE>>
          /\ UNCHANGED command_run
    /\ stages' = Append(stages, "clipboard")
    /\ pc' = "save"
    /\ UNCHANGED <<video_url, output, output_file, system, video_id,
                   fetched_transcript, all_text, cleaned, clean_text,
                   word_count, paragraph_count, title_lookups, video_title,
                   sanitized_title, written, error, exit_status, title,
                   max_length, second_run>>

\* output_file is None: get_transcript returns, the process ends with status 0.
SkipSave ==
    /\ pc = "save"
    /\ output_file = <<>>
    /\ exit_status' = <<0>>
    /\ pc' = "done"
    /\ UNCHANGED <<video_url, output, output_file, system, video_id,
                   fetched_transcript, all_text, cleaned, clean_text,
                   word_count, paragraph_count, command_run, copied,
                   title_lookups, video_title, sanitized_title, written,
                   error, stages, title, max_length, second_run>>

\* Mutant: fetch_video_title without its try/except; a failed request reaches
\* get_transcript's handler.
DeriveName_raises ==
    /\ pc = "save"
    /\ output_file = << <<>> >>
    /\ \E resp \in TitleResponses :
        LET t == fetch_video_title(resp)
            san == sanitize_filename(t, default_max_length)
        IN  IF resp.ok
            THEN /\ video_title' = t
                 /\ sanitized_title' = san
                 /\ output_file' = <<default_name(san, video_id)>>
                 /\ pc' = "write"
                 /\ UNCHANGED error
            ELSE /\ error' = <<"TitleFetchError">>
                 /\ pc' = "except"
                 /\ UNCHANGED <<video_title, sanitized_title, output_file>>
    /\ title_lookups' = title_lookups + 1
    /\ stages' = Append(stages, "title")
    /\ UNCHANGED <<video_url, output, system, video_id, fetched_transcript,
                   all_text, cleaned, clean_text, word_count, paragraph_count,
                   command_run, copied, written, exit_status, title,
                   max_length, second_run>>

\* output_file == '': look the title up, sanitize it, derive the file name.
DeriveName ==
    /\ pc = "save"
    /\ output_file = << <<>> >>
    /\ \E resp \in TitleResponses :
        LET t == fetch_video_title(resp)
            san == sanitize_filename(t, default_max_length)
        IN  /\ video_title' = t
            /\ sanitized_title' = san
            /\ output_file' = <<default_name(san, video_id)>>
    /\ title_lookups' = title_lookups + 1
    /\ stages' = Append(stages, "title")
    /\ pc' = "write"
    /\ UNCHANGED <<video_url, output, system, video_id, fetched_transcript,
                   all_text, cleaned, clean_text, word_count, paragraph_count,
                   command_run, copied, written, error, exit_status, title,
                   max_length, second_run>>

\* with open(output_file, 'w') as f: f.write(clean_text). open or write may
\* raise (OSError); the exception reaches get_transcript's handler.
WriteFile ==
    /\ \/ pc = "write"
       \/ pc = "save" /\ output_file # <<>> /\ output_file # << <<>> >>
    /\ stages' = Append(stages, "save")
    /\ \/ /\ written' = <<[name |-> output_file[1], content |-> clean_text]>>
          /\ exit_status' = <<0>>
          /\ pc' = "done"
          /\ UNCHANGED error
       \/ /\ error' = <<"FileWriteError">>
          /\ pc' = "except"
          /\ UNCHANGED <<written, exit_status>>
    /\ UNCHANGED <<video_url, output, output_file, system, video_id,
                   fetched_transcript, all_text, cleaned, clean_text,
                   word_count, paragraph_count, command_run, copied,
                   title_lookups, video_title, sanitized_title, title,
                   max_length, second_run>>

\* except Exception as e: print the error; sys.exit(1)
HandleError ==
    /\ pc = "except"
    /\ exit_status' = <<1>>
    /\ pc' = "done"
    /\ UNCHANGED <<video_url, output, output_file, system, video_id,
                   fetched_transcript, all_text, cleaned, clean_text,
                   word_count, paragraph_count, command_run, copied,
                   title_lookups, video_title, sanitized_title, written,
                   error, stages, title, max_length, second_run>>

Next ==
    \/ Extract
    \/ Fetch
    \/ Format
    \/ Stats
    \/ CopyToClipboard
    \/ SkipSave
    \/ DeriveName
    \/ WriteFile
    \/ HandleError

Spec == Init /\ [][Next]_vars

----------------------------------------------------------------------------
(* format_transcript on every transcript of at most MaxFrags snippets, and *)
(* then on its own output.                                                 *)

InitFormat ==
    /\ pc = "format"
    /\ fetched_transcript \in SeqsUpTo(Snippets, MaxFrags)
    /\ video_url = <<>>
    /\ output = <<>>
    /\ output_file = <<>>
    /\ system = "Linux"
    /\ title = <<>>
    /\ max_length = default_max_length
    /\ Locals

\* The paragraphs as a new fragment sequence, each preceded by the >> marker.
refeed(paragraphs) == [i \in 1..Len(paragraphs) |-> <<">", ">">> \o paragraphs[i]]

\* format_transcript applied to the paragraphs it kept.
Reformat ==
    /\ pc = "stats"
    /\ second_run' = <<[cleaned |-> cleaned_paragraphs(refeed(cleaned)),
                         clean_text |-> format_transcript(refeed(cleaned))]>>
    /\ pc' = "done"
    /\ UNCHANGED <<video_url, output, output_file, system, video_id,
                   fetched_transcript, all_text, cleaned, clean_text,
                   word_count, paragraph_count, command_run, copied,
                   title_lookups, video_title, sanitized_title, written,
                   error, exit_status, stages, title, max_length>>

NextFormat ==
    \/ Format
    \/ Reformat

SpecFormat == InitFormat /\ [][NextFormat]_vars

----------------------------------------------------------------------------
(* sanitize_filename on every title of at most MaxTitleLen characters and  *)
(* every maximum length that can cut it, and the default.                  *)

InitSanitize ==
    /\ pc = "sanitize"
    /\ title \in TextsUpTo(TitleChars, MaxTitleLen)
    /\ max_length \in (0..MaxTitleLen) \cup {default_max_length}
    /\ video_url = <<>>
    /\ output = <<>>
    /\ output_file = <<>>
    /\ system = "Linux"
    /\ Blank

Sanitize ==
    /\ pc = "sanitize"
    /\ sanitized_title' = sanitize_filename(title, max_length)
    /\ pc' = "done"
    /\ UNCHANGED <<video_url, output, output_file, system, video_id,
                   fetched_transcript, all_text, cleaned, clean_text,
                   word_count, paragraph_count, command_run, copied,
                   title_lookups, video_title, written, error, exit_status,
                   stages, title, max_length, second_run>>

SpecSanitize == InitSanitize /\ [][Sanitize]_vars

----------------------------------------------------------------------------
(* The identifier extraction on every URL of at most MaxUrlLen characters. *)

InitExtract ==
    /\ pc = "extract"
    /\ video_url \in TextsUpTo(UrlChars, MaxUrlLen)
    /\ output = <<>>
    /\ output_file = <<>>
    /\ system = "Linux"
    /\ title = <<>>
    /\ max_length = default_max_length
    /\ Blank

SpecExtract == InitExtract /\ [][Extract]_vars

----------------------------------------------------------------------------
(* Vocabulary of the properties.                                           *)

FetchFailed == error # <<>> /\ error[1] \in FetchErrors

WriteFailed == error = <<"FileWriteError">>

Performed(stage) == \E i \in 1..Len(stages) : stages[i] = stage

IsPrefix(s, t) == Len(s) <= Len(t) /\ SubSeq(t, 1, Len(s)) = s

Sentinel == output = << <<>> >>

ExplicitPath == output # <<>> /\ output[1] # <<>>

\* The stages of a run whose fetch succeeds, by the output target alone.
ExpectedStages ==
    <<"extract", "fetch", "format", "stats", "clipboard">>
    \o (IF output = <<>> THEN <<>>
        ELSE IF Sentinel THEN <<"title", "save">>
        ELSE <<"save">>)

NoAdjacentEqual(s) == \A i \in 1..Len(s) : i > 1 => s[i] # s[i - 1]

Range(s) == {s[i] : i \in 1..Len(s)}

\* The elements of s at the indices in K, in order.
Pick(s, K) ==
    [k \in 1..Cardinality(K) |->
        s[CHOOSE i \in K : Cardinality({j \in K : j <= i}) = k]]

Trimmed == [i \in 1..Len(fetched_transcript) |-> strip(fetched_transcript[i])]

\* K is the set of retained indices: i is dropped exactly when its trimmed
\* text equals that of the nearest retained index before it.
RetainedSet(K) ==
    \A i \in 1..Len(fetched_transcript) :
        LET before == {j \in K : j < i}
        IN  i \notin K <=> (before # {} /\ Trimmed[i] = Trimmed[Max(before)])

HasNewline(s) == \E i \in 1..Len(s) : s[i] = NL

Blankish(s) == \A i \in 1..Len(s) : s[i] \in Whitespace

VEqAt == {i \in 1..Len(video_url) : OccursAt(video_url, <<"v", "=">>, i)}

AfterLastVEq ==
    IF VEqAt = {} THEN video_url
    ELSE SubSeq(video_url, Max(VEqAt) + 2, Len(video_url))

CutAtAmp(s) ==
    LET amp == {i \in 1..Len(s) : s[i] = "&"}
    IN  IF amp = {} THEN s ELSE SubSeq(s, 1, Min(amp) - 1)

----------------------------------------------------------------------------
(* Properties.                                                             *)

\* C1 as stated: a finished run has status 1 if and only if the fetch failed,
\* whatever happened in the clipboard copy, the title lookup and the file write.
C1_ExitOneIffFetchFailed ==
    exit_status # <<>> => (exit_status = <<1>> <=> FetchFailed)

\* C1 amended: a finished run has status 0 or 1, and it is 1 if and only if the
\* fetch failed or the file write failed; a failed clipboard copy or title
\* lookup never changes the status.
C1_ExitOneIffFetchOrWriteFailed ==
    exit_status # <<>> =>
        /\ exit_status \in {<<0>>, <<1>>}
        /\ exit_status = <<1>> <=> (FetchFailed \/ WriteFailed)

\* A run whose fetch succeeded and whose clipboard copy failed ends with 1
\* because the file write failed.
C1_Witness ==
    /\ exit_status = <<1>>
    /\ WriteFailed
    /\ Performed("format")
    /\ copied = <<FALSE>>

\* C2: when the fetch fails nothing after it is performed; when it succeeds
\* the stages run once each in the order format, stats, clipboard and then,
\* only if output was requested, the save (after the title lookup for the ''
\* sentinel), whatever the clipboard copy and the title lookup gave.
C2_StageOrder ==
    /\ IsPrefix(stages, ExpectedStages)
    /\ FetchFailed => stages = <<"extract", "fetch">>
    /\ (pc = "done" /\ ~FetchFailed) => stages = ExpectedStages

\* A finished run that saved the file although the clipboard copy failed and
\* the title lookup gave no title.
C2_Witness ==
    /\ pc = "done"
    /\ copied = <<FALSE>>
    /\ title_lookups = 1
    /\ video_title = <<>>
    /\ Performed("save")
    /\ written # <<>>

\* C3: the retained texts are the trimmed fragments at the indices K, where a
\* fragment is dropped if and only if its trimmed text equals that of the
\* nearest retained fragment before it; the first fragment is retained and no
\* two adjacent retained texts are equal.
C3_ConsecutiveDedup ==
    pc # "format" =>
        /\ \E K \in SUBSET (1..Len(fetched_transcript)) :
              /\ RetainedSet(K)
              /\ all_text = Pick(Trimmed, K)
        /\ fetched_transcript # <<>> => (all_text # <<>> /\ all_text[1] = Trimmed[1])
        /\ NoAdjacentEqual(all_text)

\* A run of three fragments with the same trimmed text (not all the same raw
\* text) that contributed one entry.
C3_Witness ==
    /\ pc # "format"
    /\ Len(fetched_transcript) = 3
    /\ Trimmed[1] = Trimmed[2]
    /\ Trimmed[2] = Trimmed[3]
    /\ fetched_transcript[1] # fetched_transcript[2]
    /\ Len(all_text) = 1

\* C4 as stated: no segment of the clean transcript between "\n\n" delimiters
\* is empty or whitespace-only, for every caption sequence.
C4_NoBlankSegment ==
    pc # "format" =>
        \A i \in 1..Len(split(clean_text, <<NL, NL>>)) :
            ~Blankish(split(clean_text, <<NL, NL>>)[i])

\* C4 amended: the clean transcript is the kept paragraphs joined by "\n\n",
\* every kept paragraph is non-empty and has no leading or trailing
\* whitespace, and when at least one paragraph is kept and no fragment
\* contains a newline the "\n\n"-separated segments are the kept paragraphs.
C4_NoBlankParagraph ==
    pc # "format" =>
        /\ clean_text = join(<<NL, NL>>, cleaned)
        /\ \A i \in 1..Len(cleaned) :
              cleaned[i] # <<>> /\ strip(cleaned[i]) = cleaned[i]
        /\ (/\ cleaned # <<>>
            /\ \A i \in 1..Len(fetched_transcript) : ~HasNewline(fetched_transcript[i]))
           => split(clean_text, <<NL, NL>>) = cleaned

\* A transcript whose split on >> gave a blank segment that was dropped, with
\* a paragraph kept.
C4_Witness ==
    /\ pc # "format"
    /\ cleaned # <<>>
    /\ \A i \in 1..Len(fetched_transcript) : ~HasNewline(fetched_transcript[i])
    /\ Len(split(join(<<" ">>, all_text), <<">", ">">>)) > Len(cleaned)

\* C5: the sanitized title has none of the invalid characters, no whitespace,
\* no two consecutive hyphens, no leading or trailing hyphen or space, and at
\* most max_length characters; the empty title gives the empty string.
C5_SanitizedSafe ==
    pc = "done" =>
        /\ \A i \in 1..Len(sanitized_title) :
              /\ sanitized_title[i] \notin invalid_chars \cup Whitespace
              /\ i > 1 => ~(sanitized_title[i] = "-" /\ sanitized_title[i - 1] = "-")
        /\ sanitized_title # <<>> =>
              /\ sanitized_title[1] \notin {"-", " "}
              /\ sanitized_title[Len(sanitized_title)] \notin {"-", " "}
        /\ Len(sanitized_title) <= max_length
        /\ title = <<>> => sanitized_title = <<>>

\* A title cut in the middle, right after a separator.
C5_Witness ==
    /\ pc = "done"
    /\ Len(title) = 3
    /\ title[1] = "a"
    /\ title[2] \in invalid_chars
    /\ title[3] = "a"
    /\ max_length = 2
    /\ sanitized_title = <<"a">>

\* C6 as stated: the identifier is the text after the last v= cut at the
\* first &, and the whole URL when the URL has no v=.
C6_WholeUrlWithoutVEq ==
    pc = "fetch" =>
        video_id = (IF VEqAt = {} THEN video_url ELSE CutAtAmp(AfterLastVEq))

\* C6 amended: the identifier is the text after the last v=, or the whole URL
\* when it has no v=, cut in both cases at its first &.
C6_CutAtFirstAmp ==
    pc = "fetch" => video_id = CutAtAmp(AfterLastVEq)

\* A URL without v= and with an &: the identifier is not the whole URL.
C6_Witness ==
    /\ pc = "fetch"
    /\ VEqAt = {}
    /\ \E i \in 1..Len(video_url) : video_url[i] = "&"
    /\ video_id # video_url
    /\ video_id # <<>>

\* C7: what is written depends on the output target alone. None: no title
\* lookup, no file. An explicit path: no title lookup, the clean transcript at
\* that path. The '' sentinel: one title lookup, the sanitized title, and the
\* name {sanitized}-[{id}]-transcript.txt exactly when the sanitized title is
\* non-empty, {id}_transcript.txt otherwise; the content is the clean transcript.
C7_FileByTarget ==
    /\ title_lookups = (IF Sentinel /\ Performed("title") THEN 1 ELSE 0)
    /\ output = <<>> => written = <<>>
    /\ (pc = "done" /\ exit_status = <<0>> /\ output # <<>>) => written # <<>>
    /\ written # <<>> =>
          /\ written[1].content = clean_text
          /\ ExplicitPath => written[1].name = output[1]
          /\ Sentinel =>
                /\ sanitized_title = sanitize_filename(video_title, default_max_length)
                /\ sanitized_title # <<>> =>
                      written[1].name =
                          sanitized_title \o <<"-", "[">> \o video_id
                          \o <<"]", "-", "t", "r", "a", "n", "s", "c", "r", "i",
                               "p", "t", ".", "t", "x", "t">>
                /\ sanitized_title = <<>> =>
                      written[1].name =
                          video_id \o <<"_", "t", "r", "a", "n", "s", "c", "r",
                                        "i", "p", "t", ".", "t", "x", "t">>

\* A file saved under the title-derived name.
C7_Witness ==
    /\ Sentinel
    /\ written # <<>>
    /\ video_title # <<>>
    /\ sanitized_title # <<>>
    /\ sanitized_title # video_title

\* C8 as stated: formatting the kept paragraphs, each preceded by >>, gives
\* the same paragraphs in the same order, also with equal adjacent paragraphs.
C8_SameParagraphs ==
    second_run # <<>> => second_run[1].cleaned = cleaned

\* C8 amended: formatting the kept paragraphs, each preceded by >>, gives the
\* same set of paragraphs, and the same paragraphs in the same order when no
\* two adjacent paragraphs are equal.
C8_SameParagraphSet ==
    second_run # <<>> =>
        /\ Range(second_run[1].cleaned) = Range(cleaned)
        /\ NoAdjacentEqual(cleaned) =>
              /\ second_run[1].cleaned = cleaned
              /\ second_run[1].clean_text = clean_text

\* Two different paragraphs, formatted again.
C8_Witness ==
    /\ second_run # <<>>
    /\ Len(cleaned) >= 2
    /\ NoAdjacentEqual(cleaned)
    /\ second_run[1].cleaned = cleaned

\* C9: copy_to_clipboard returns True only if a clipboard command was run
\* with the clean transcript as its input and ended without error, and False
\* in every other case.
C9_CopiedOnlyIfCommandRan ==
    copied # <<>> =>
        (copied[1] <=> (/\ command_run # <<>>
                        /\ command_run[1].input = clean_text
                        /\ command_run[1].ok))

\* C10: the reported paragraph count is the number of paragraphs the formatter
\* kept (0 when it kept none), and the reported word count is the number of
\* whitespace-separated tokens of the clean transcript.
C10_ReportedCounts ==
    Performed("stats") =>
        /\ paragraph_count = Len(cleaned)
        /\ word_count = Len(split_ws(clean_text))

====
